---- MODULE Spec2Model ----
(***************************************************************************)
(* Model of axum-swagger-ui (src/axum-swagger-ui/src/lib.rs): the mount    *)
(* adapter swagger_ui / swagger_ui_route, the root redirect handler        *)
(* redirect_index, the content-type helper mime_type and the path resolver *)
(* handle_path.                                                            *)
(*                                                                         *)
(* Strings are sequences of one-character strings, so that trimming,       *)
(* splitting and substring replacement are computed the way the Rust       *)
(* standard library computes them.                                         *)
(***************************************************************************)
EXTENDS Integers, Sequences, FiniteSets, TLC

VARIABLES
    prefix,     \* the path passed to Router::nest (<<>>: the route used un-nested)
    spec,       \* the shared Arc<SpecOrUrl>
    config,     \* the shared Arc<Config>, the base Configuration
    assets,     \* the embedded Asset Bundle: key -> bytes
    mounted,    \* history: the values of spec, config, assets at mount time
    req,        \* sequential server: the request served last
    resp,       \* sequential server: the response to req
    followed,   \* TRUE iff req fetched the url of the configuration just received
    tasks,      \* concurrent server: worker -> the request task it runs
    first,      \* concurrent server: the first completed (request, response)
    filename,   \* mime_type driver: the argument
    ctype       \* mime_type driver: the result

vars == <<prefix, spec, config, assets, mounted, req, resp, followed,
          tasks, first, filename, ctype>>

-----------------------------------------------------------------------------
(* Bounds of the model *)

\* most "/" characters a request puts between the mount prefix and the sub-path
\* (and after a bare mount root)
MaxSlashes == 2

\* longest file name handed to mime_type by its driver
MaxNameLen == 4

\* requests the concurrent server handles at the same time
NumWorkers == 2

-----------------------------------------------------------------------------
(* String literals of the source *)

\* "swagger-ui-config.json" (lib.rs:82 and lib.rs:88)
SWAGGER_UI_CONFIG ==
    <<"s","w","a","g","g","e","r","-","u","i","-",
      "c","o","n","f","i","g",".","j","s","o","n">>

\* "/index.html" of the two format! strings (lib.rs:58, lib.rs:60)
SLASH_INDEX_HTML == <<"/","i","n","d","e","x",".","h","t","m","l">>

-----------------------------------------------------------------------------
(* The Rust standard-library string operations the handlers call *)

starts_with(s, p) ==
    /\ Len(p) <= Len(s)
    /\ SubSeq(s, 1, Len(p)) = p

DropFirst(s, n) == SubSeq(s, n + 1, Len(s))

RECURSIVE trim_start_matches(_, _)
trim_start_matches(s, c) ==
    IF s # <<>> /\ Head(s) = c THEN trim_start_matches(Tail(s), c) ELSE s

RECURSIVE trim_end_matches(_, _)
trim_end_matches(s, c) ==
    IF s # <<>> /\ s[Len(s)] = c
    THEN trim_end_matches(SubSeq(s, 1, Len(s) - 1), c)
    ELSE s

\* str::replace: every non-overlapping match of `from`, left to right
RECURSIVE replace(_, _, _)
replace(s, from, to) ==
    IF Len(s) < Len(from) THEN s
    ELSE IF starts_with(s, from)
         THEN to \o replace(DropFirst(s, Len(from)), from, to)
         ELSE <<Head(s)>> \o replace(Tail(s), from, to)

\* filename.split(".").last(): the text after the last ".", and the whole
\* text when there is no "." (split always yields at least one piece)
RECURSIVE split_last(_, _)
split_last(s, c) ==
    IF \E i \in 1..Len(s) : s[i] = c
    THEN split_last(Tail(s), c)
    ELSE s

\* Option<&str>
None == [some |-> FALSE, val |-> <<>>]
Some(v) == [some |-> TRUE, val |-> v]

-----------------------------------------------------------------------------
(* Values *)

Str_index_html == <<"i","n","d","e","x",".","h","t","m","l">>
Str_swagger_ui_css == <<"s","w","a","g","g","e","r","-","u","i",".","c","s","s">>
Str_openapi_json == <<"o","p","e","n","a","p","i",".","j","s","o","n">>
Str_nope == <<"n","o","p","e">>
Str_docs == <<"/","d","o","c","s">>
Str_remote == <<"h","t","t","p","s",":","/","/","e",".","x","/","s",".","j","s","o","n">>

\* Assets (the rust-embed bundle of the swagger-ui crate): some of its keys,
\* none with a leading slash, each with its stored bytes
Assets ==
    (Str_index_html :> "bytes of index.html") @@
    (Str_swagger_ui_css :> "bytes of swagger-ui.css")

\* swagger_ui::Config: the url field and, as one opaque value, every other option
Config(url, opts) == [url |-> url, opts |-> opts]

\* Config::default(), which config.into().unwrap_or_default() takes for None
DefaultConfig == Config(<<>>, "default options")

\* swagger_ui::SpecOrUrl
SpecOf(name, content) == [tag |-> "Spec", name |-> name, content |-> content, url |-> <<>>]
UrlOf(url) == [tag |-> "Url", name |-> <<>>, content |-> "", url |-> url]

\* axum::response::Response: status, content-type header, location header, body;
\* outcome names the return statement of the handler that built the response
NoJson == Config(<<>>, "")
BytesBody(b) == [tag |-> "bytes", bytes |-> b, json |-> NoJson]
JsonBody(c) == [tag |-> "json", bytes |-> "", json |-> c]
EmptyBody == [tag |-> "empty", bytes |-> "", json |-> NoJson]
Response(status, content_type, location, body, outcome) ==
    [status |-> status, content_type |-> content_type, location |-> location,
     body |-> body, outcome |-> outcome]

NoResponse == Response(0, "", <<>>, EmptyBody, "none")

\* http::Uri as the handlers read it: path() and query()
Uri(path, query) == [path |-> path, query |-> query]
NoRequest == Uri(<<>>, None)

-----------------------------------------------------------------------------
(* mime_type *)

\* mime_guess::from_ext(ext).first_or_octet_stream(): the extension table, and
\* application/octet-stream for an extension it does not hold
from_ext_first_or_octet_stream(ext) ==
    CASE ext = <<"h","t","m","l">> -> "text/html"
      [] ext = <<"h","t","m">> -> "text/html"
      [] ext = <<"c","s","s">> -> "text/css"
      [] ext = <<"j","s","o","n">> -> "application/json"
      [] ext = <<"t","x","t">> -> "text/plain"
      [] OTHER -> "application/octet-stream"

\* variant: the generic type for every name
mime_type_octet(name) == "application/octet-stream"

mime_type(name) ==
    from_ext_first_or_octet_stream(split_last(name, "."))

-----------------------------------------------------------------------------
(* redirect_index *)

\* variant: the path is used as it came, trailing slashes kept
redirect_index_untrimmed(uri) ==
    Response(308, "",
             IF uri.query.some
             THEN uri.path \o SLASH_INDEX_HTML \o <<"?">> \o uri.query.val
             ELSE uri.path \o SLASH_INDEX_HTML,
             EmptyBody, "redirect")

redirect_index(uri) ==
    LET p == trim_end_matches(uri.path, "/")
    IN  Response(308, "",
                 IF uri.query.some
                 THEN p \o SLASH_INDEX_HTML \o <<"?">> \o uri.query.val
                 ELSE p \o SLASH_INDEX_HTML,
                 EmptyBody, "redirect")

-----------------------------------------------------------------------------
(* handle_path *)

\* the value written to the url field of the request-local Config
\* variant: the remote URL is substituted into the request path as a name is
config_url_replace_always(original_path, s) ==
    replace(original_path, SWAGGER_UI_CONFIG, IF s.tag = "Spec" THEN s.name ELSE s.url)

config_url(original_path, s) ==
    IF s.tag = "Spec"
    THEN replace(original_path, SWAGGER_UI_CONFIG, s.name)
    ELSE s.url

\* if let SpecOrUrl::Spec(spec) = spec { if path == spec.name.trim_start_matches("/")
\* variant: the name is compared with its leading slashes on
spec_matches_untrimmed(path, s) ==
    /\ s.tag = "Spec"
    /\ path = s.name

spec_matches(path, s) ==
    /\ s.tag = "Spec"
    /\ path = trim_start_matches(s.name, "/")

\* variant: a 404 that carries a body
not_found_echo == Response(404, "", <<>>, BytesBody("not found"), "not_found")

not_found == Response(404, "", <<>>, EmptyBody, "not_found")

\* variant: the spec-document test made first
handle_path_spec_first(uri, original, s, c) ==
    LET path == trim_start_matches(uri.path, "/")
    IN  IF spec_matches(path, s)
        THEN Response(200, "application/json", <<>>, BytesBody(s.content), "spec")
        ELSE IF path \in DOMAIN assets
        THEN Response(200, mime_type(path), <<>>, BytesBody(assets[path]), "asset")
        ELSE IF path = SWAGGER_UI_CONFIG
        THEN Response(200, "application/json", <<>>,
                      JsonBody([c EXCEPT !.url = config_url(original.path, s)]), "config")
        ELSE not_found

handle_path(uri, original, s, c) ==
    LET path == trim_start_matches(uri.path, "/")
    IN  IF path \in DOMAIN assets
        THEN Response(200, mime_type(path), <<>>, BytesBody(assets[path]), "asset")
        ELSE IF path = SWAGGER_UI_CONFIG
        THEN Response(200, "application/json", <<>>,
                      JsonBody([c EXCEPT !.url = config_url(original.path, s)]), "config")
        ELSE IF spec_matches(path, s)
        THEN Response(200, "application/json", <<>>, BytesBody(s.content), "spec")
        ELSE not_found

-----------------------------------------------------------------------------
(* swagger_ui / swagger_ui_route: the mount *)

\* the paths a caller nests the route at; <<>> is swagger_ui_route used as the
\* whole application, as the tests of lib.rs use it
Prefixes == {<<>>, Str_docs, <<"/">> \o SWAGGER_UI_CONFIG}

SpecNames ==
    {Str_openapi_json, <<"/">> \o Str_openapi_json, Str_index_html, SWAGGER_UI_CONFIG}

Specs == {SpecOf(n, "bytes of the spec") : n \in SpecNames} \cup {UrlOf(Str_remote)}

Configs == {DefaultConfig, Config(<<"/","o","l","d">>, "custom options")}

\* Router::nest(path, ..): the request paths the nested router serves, and what
\* is left of such a path with the prefix stripped
under_mount(path) ==
    /\ starts_with(path, prefix)
    /\ Len(path) > Len(prefix) => path[Len(prefix) + 1] = "/"

strip_prefix(path) == DropFirst(path, Len(prefix))

\* what the host application answers to a request outside the mount
unrouted == Response(404, "", <<>>, EmptyBody, "unrouted")

RECURSIVE Slashes(_)
Slashes(k) == IF k = 0 THEN <<>> ELSE <<"/">> \o Slashes(k - 1)

Queries == {None, Some(<<>>), Some(<<"a","=","1">>)}

Segments ==
    {<<>>, Str_index_html, Str_swagger_ui_css, SWAGGER_UI_CONFIG, Str_openapi_json, Str_nope}

Str_elsewhere == <<"/","e","l","s","e">>

Mount ==
    /\ prefix \in Prefixes
    /\ spec \in Specs
    /\ config \in Configs
    /\ assets = Assets
    /\ mounted = [spec |-> spec, config |-> config, assets |-> assets]

Idle ==
    /\ req = NoRequest
    /\ resp = NoResponse
    /\ followed = FALSE
    /\ tasks = <<>>
    /\ first = <<>>
    /\ filename = <<>>
    /\ ctype = ""

Init == Mount /\ Idle

\* route("/", get(redirect_index)): a GET of the bare mount root. How many
\* trailing slashes the router still takes for the root is the router's
\* business; the handler is run on each such original URI.
GetRoot ==
    \E k \in 0..MaxSlashes, q \in Queries :
        LET original == Uri(prefix \o Slashes(k), q)
        IN  /\ original.path # <<>>
            /\ req' = original
            /\ resp' = redirect_index(original)
            /\ followed' = FALSE
            /\ UNCHANGED <<prefix, spec, config, assets, mounted, tasks, first,
                           filename, ctype>>

\* route("/*path", get(..handle_path..)): a GET below the mount root
GetPath ==
    \E k \in 1..MaxSlashes, seg \in Segments, q \in Queries :
        LET uri == Uri(Slashes(k) \o seg, q)
            original == Uri(prefix \o uri.path, q)
        IN  /\ Len(uri.path) >= 2
            /\ req' = original
            /\ resp' = handle_path(uri, original, spec, config)
            /\ followed' = FALSE
            /\ UNCHANGED <<prefix, spec, config, assets, mounted, tasks, first,
                           filename, ctype>>

\* a GET the nested router does not serve
GetElsewhere ==
    /\ ~ under_mount(Str_elsewhere)
    /\ req' = Uri(Str_elsewhere, None)
    /\ resp' = unrouted
    /\ followed' = FALSE
    /\ UNCHANGED <<prefix, spec, config, assets, mounted, tasks, first,
                   filename, ctype>>

\* the answer of the application to GET path, through the router
serve(original) ==
    IF ~ under_mount(original.path) THEN unrouted
    ELSE IF Len(strip_prefix(original.path)) <= 1 THEN redirect_index(original)
    ELSE handle_path(Uri(strip_prefix(original.path), original.query),
                     original, spec, config)

\* the viewer, having received the configuration in inline-spec mode, fetches
\* its url from the same server
FollowUrl ==
    /\ resp.outcome = "config"
    /\ spec.tag = "Spec"
    /\ req' = Uri(resp.body.json.url, None)
    /\ resp' = serve(req')
    /\ followed' = TRUE
    /\ UNCHANGED <<prefix, spec, config, assets, mounted, tasks, first,
                   filename, ctype>>

Next == GetRoot \/ GetPath \/ GetElsewhere \/ FollowUrl

Spec == Init /\ [][Next]_vars

-----------------------------------------------------------------------------
(* mime_type, applied to every short file name *)

MimeAlphabet == {".", "h", "t", "m", "l", "x"}

FileNames == UNION {[1..n -> MimeAlphabet] : n \in 0..MaxNameLen}

InitMime ==
    /\ prefix = <<>>
    /\ spec = UrlOf(Str_remote)
    /\ config = DefaultConfig
    /\ assets = Assets
    /\ mounted = [spec |-> spec, config |-> config, assets |-> assets]
    /\ req = NoRequest
    /\ resp = NoResponse
    /\ followed = FALSE
    /\ tasks = <<>>
    /\ first = <<>>
    /\ filename \in FileNames
    /\ ctype = ""

ApplyMimeType ==
    /\ ctype = ""
    /\ ctype' = mime_type(filename)
    /\ UNCHANGED <<prefix, spec, config, assets, mounted, req, resp, followed,
                   tasks, first, filename>>

NextMime == ApplyMimeType

SpecMime == InitMime /\ [][NextMime]_vars

-----------------------------------------------------------------------------
(* The server handling several requests at once: each request is a task that
   runs handle_path (or redirect_index) on a worker of the runtime, statement
   by statement, against the state the closure of swagger_ui_route shares *)

Workers == 1..NumWorkers

Task(pc, uri, original, local, response) ==
    [pc |-> pc, uri |-> uri, original |-> original, local |-> local, resp |-> response]

IdleTask == Task("idle", NoRequest, NoRequest, NoJson, NoResponse)

\* the nested paths requested of the concurrent server: the bare root, the
\* configuration by two spellings, the spec document
ConcPaths ==
    {<<>>,
     <<"/">> \o SWAGGER_UI_CONFIG,
     <<"/", "/">> \o SWAGGER_UI_CONFIG,
     <<"/">> \o Str_openapi_json}

InitConc ==
    /\ prefix = Str_docs
    /\ spec \in {SpecOf(Str_openapi_json, "bytes of the spec"), UrlOf(Str_remote)}
    /\ config \in Configs
    /\ assets = Assets
    /\ mounted = [spec |-> spec, config |-> config, assets |-> assets]
    /\ req = NoRequest
    /\ resp = NoResponse
    /\ followed = FALSE
    /\ tasks = [w \in Workers |-> IdleTask]
    /\ first = <<>>
    /\ filename = <<>>
    /\ ctype = ""

\* the router hands a request to a worker that is free
Receive(w) ==
    /\ tasks[w].pc \in {"idle", "done"}
    /\ \E path \in ConcPaths :
          tasks' = [tasks EXCEPT ![w] =
              Task("start", Uri(path, None), Uri(prefix \o path, None),
                   NoJson, NoResponse)]
    /\ UNCHANGED <<prefix, spec, config, assets, mounted, req, resp, followed,
                   first, filename, ctype>>

\* the response leaves the task; the first one of a run may be remembered
Complete(w, response) ==
    /\ tasks' = [tasks EXCEPT ![w].pc = "done", ![w].resp = response]
    /\ \/ first' = first
       \/ /\ first = <<>>
          /\ first' = <<[original |-> tasks[w].original, resp |-> response, by |-> w]>>

\* redirect_index, for the bare mount root
Redirect(w) ==
    /\ tasks[w].pc = "start"
    /\ tasks[w].uri.path = <<>>
    /\ Complete(w, redirect_index(tasks[w].original))
    /\ UNCHANGED <<prefix, spec, config, assets, mounted, req, resp, followed,
                   filename, ctype>>

\* handle_path up to the first return, or to let mut config = config.clone()
Resolve(w) ==
    /\ tasks[w].pc = "start"
    /\ tasks[w].uri.path # <<>>
    /\ LET path == trim_start_matches(tasks[w].uri.path, "/")
       IN  IF path \notin DOMAIN assets /\ path = SWAGGER_UI_CONFIG
           THEN /\ tasks' = [tasks EXCEPT ![w].pc = "cloned", ![w].local = config]
                /\ first' = first
           ELSE Complete(w, handle_path(tasks[w].uri, tasks[w].original, spec, config))
    /\ UNCHANGED <<prefix, spec, config, assets, mounted, req, resp, followed,
                   filename, ctype>>

\* variant: config.url = .. written through the shared Config, not the clone
write_url_shared(w, url) ==
    /\ config' = [config EXCEPT !.url = url]
    /\ tasks' = [tasks EXCEPT ![w].pc = "url_set", ![w].local = config']

\* config.url = ..: config is the request's own clone
write_url(w, url) ==
    /\ tasks' = [tasks EXCEPT ![w].pc = "url_set", ![w].local.url = url]
    /\ config' = config

\* the match on spec that assigns config.url
SetUrl(w) ==
    /\ tasks[w].pc = "cloned"
    /\ write_url(w, config_url(tasks[w].original.path, spec))
    /\ UNCHANGED <<prefix, spec, assets, mounted, req, resp, followed, first,
                   filename, ctype>>

\* return Json(config).into_response()
RespondConfig(w) ==
    /\ tasks[w].pc = "url_set"
    /\ Complete(w, Response(200, "application/json", <<>>,
                            JsonBody(tasks[w].local), "config"))
    /\ UNCHANGED <<prefix, spec, config, assets, mounted, req, resp, followed,
                   filename, ctype>>

NextConc ==
    \E w \in Workers :
        Receive(w) \/ Redirect(w) \/ Resolve(w) \/ SetUrl(w) \/ RespondConfig(w)

SpecConc == InitConc /\ [][NextConc]_vars

-----------------------------------------------------------------------------
(* Vocabulary of the properties *)

\* the sub-path of the request served last: the request path without the mount
\* prefix and without leading slashes
ReqSubPath == trim_start_matches(strip_prefix(req.path), "/")

\* the request served last was answered by handle_path
Handled == resp.outcome \in {"asset", "config", "spec", "not_found"}

HasDot(s) == \E i \in 1..Len(s) : s[i] = "."

\* the extension of a path: the text after its last ".", empty without a "."
ExtensionOf(s) ==
    IF HasDot(s)
    THEN LET i == CHOOSE j \in 1..Len(s) :
                      /\ s[j] = "."
                      /\ \A m \in (j + 1)..Len(s) : s[m] # "."
         IN  SubSeq(s, i + 1, Len(s))
    ELSE <<>>

StrippedName == trim_start_matches(spec.name, "/")

-----------------------------------------------------------------------------
(* C1 *)

\* C1: handle_path answers with exactly one of asset, config, spec document
\* and 404, the first in that order whose condition the sub-path meets; and
\* when the inline spec's name is a bundle key or "swagger-ui-config.json",
\* no request gets the spec document.
C1_PriorityOrder ==
    /\ Handled =>
          resp.outcome =
              IF ReqSubPath \in DOMAIN assets THEN "asset"
              ELSE IF ReqSubPath = SWAGGER_UI_CONFIG THEN "config"
              ELSE IF spec.tag = "Spec" /\ ReqSubPath = StrippedName THEN "spec"
              ELSE "not_found"
    /\ (spec.tag = "Spec" /\ spec.name \in DOMAIN assets \cup {SWAGGER_UI_CONFIG}) =>
          /\ resp.outcome # "spec"
          /\ resp.body # BytesBody(spec.content)

\* the spec is named like the configuration document, that name was requested
\* and the configuration was returned
C1_Witness ==
    /\ spec.tag = "Spec"
    /\ spec.name = SWAGGER_UI_CONFIG
    /\ ReqSubPath = spec.name
    /\ resp.outcome = "config"

-----------------------------------------------------------------------------
(* C2 *)

\* the request path with its trailing "swagger-ui-config.json" replaced by name
TrailingReplaced(path, name) ==
    SubSeq(path, 1, Len(path) - Len(SWAGGER_UI_CONFIG)) \o name

\* C2: in inline-spec mode the url of the configuration returned for
\* "swagger-ui-config.json" is the original request path with only its
\* trailing "swagger-ui-config.json" replaced by the spec's name.
C2_UrlReplacesTrailingSegment ==
    (Handled /\ spec.tag = "Spec" /\ resp.outcome = "config") =>
        resp.body.json.url = TrailingReplaced(req.path, spec.name)

-----------------------------------------------------------------------------
(* C3 *)

\* C3: the sub-path "swagger-ui-config.json", not being a bundle key, gets 200
\* with content-type application/json in both modes; in remote-URL mode the
\* url of the returned configuration is the configured URL, and every other
\* option is the base Configuration's.
C3_ConfigResponse ==
    (Handled /\ ReqSubPath = SWAGGER_UI_CONFIG /\ ReqSubPath \notin DOMAIN assets) =>
        /\ resp.status = 200
        /\ resp.content_type = "application/json"
        /\ resp.body.tag = "json"
        /\ resp.body.json.opts = config.opts
        /\ spec.tag = "Url" => resp.body.json.url = spec.url

\* remote-URL mode, a base Configuration with options and url of its own, and
\* the configuration requested with a doubled slash
C3_Witness ==
    /\ spec.tag = "Url"
    /\ config # DefaultConfig
    /\ prefix = Str_docs
    /\ req.path = prefix \o <<"/", "/">> \o SWAGGER_UI_CONFIG
    /\ resp.outcome = "config"
    /\ resp.body.json.url = Str_remote

-----------------------------------------------------------------------------
(* C4 *)

\* C4: redirect_index answers 308 with the target: the original path without
\* its trailing slashes, then "/index.html", then "?" and the query if the
\* request has a query.
C4_RedirectTarget ==
    resp.outcome = "redirect" =>
        /\ resp.status = 308
        /\ \E k \in 0..Len(req.path) :
              LET base == SubSeq(req.path, 1, Len(req.path) - k)
              IN  /\ req.path = base \o Slashes(k)
                  /\ base = <<>> \/ base[Len(base)] # "/"
                  /\ resp.location =
                        base \o SLASH_INDEX_HTML
                             \o (IF req.query.some THEN <<"?">> \o req.query.val ELSE <<>>)

\* the mount root requested with two trailing slashes and a query
C4_Witness ==
    /\ resp.outcome = "redirect"
    /\ req.path = Str_docs \o <<"/", "/">>
    /\ req.query = Some(<<"a","=","1">>)
    /\ resp.location = Str_docs \o SLASH_INDEX_HTML \o <<"?","a","=","1">>

-----------------------------------------------------------------------------
(* C5 *)

\* C5: a sub-path that is a key of the bundle gets 200, the bundle's bytes for
\* the key and the content-type of the path's extension (text/html for
\* index.html), in both modes and whatever the spec is named.
C5_AssetResponse ==
    (Handled /\ ReqSubPath \in DOMAIN assets) =>
        /\ resp.status = 200
        /\ resp.body = BytesBody(assets[ReqSubPath])
        /\ resp.content_type = from_ext_first_or_octet_stream(ExtensionOf(ReqSubPath))
        /\ ReqSubPath = Str_index_html => resp.content_type = "text/html"

\* index.html requested on a mount whose spec is itself named index.html
C5_Witness ==
    /\ spec.tag = "Spec"
    /\ spec.name = Str_index_html
    /\ ReqSubPath = Str_index_html
    /\ resp.status = 200
    /\ resp.content_type = "text/html"
    /\ resp.body.bytes = "bytes of index.html"

-----------------------------------------------------------------------------
(* C6 *)

\* C6: in inline-spec mode a request whose sub-path is the spec's name (its
\* leading slashes stripped) gets 200, application/json and the spec's
\* content, for every spec name.
C6_SpecDocumentForEveryName ==
    (Handled /\ spec.tag = "Spec" /\ ReqSubPath = StrippedName) =>
        /\ resp.status = 200
        /\ resp.content_type = "application/json"
        /\ resp.body = BytesBody(spec.content)

\* C6, amended: the same, for every spec name that, its leading slashes
\* stripped, is neither a bundle key nor "swagger-ui-config.json".
C6_SpecDocument ==
    (/\ Handled
     /\ spec.tag = "Spec"
     /\ ReqSubPath = StrippedName
     /\ StrippedName \notin DOMAIN assets
     /\ StrippedName # SWAGGER_UI_CONFIG) =>
        /\ resp.status = 200
        /\ resp.content_type = "application/json"
        /\ resp.body = BytesBody(spec.content)

\* a spec named "/openapi.json" served for the sub-path "openapi.json"
C6_Witness ==
    /\ spec.tag = "Spec"
    /\ spec.name = <<"/">> \o Str_openapi_json
    /\ ReqSubPath = Str_openapi_json
    /\ resp.outcome = "spec"
    /\ resp.body = BytesBody(spec.content)

-----------------------------------------------------------------------------
(* C7 *)

\* C7: a sub-path that is no bundle key, not "swagger-ui-config.json" and not
\* the inline spec's name gets 404 with an empty body; in remote-URL mode no
\* request gets a spec document.
C7_NotFound ==
    /\ (/\ Handled
        /\ ReqSubPath \notin DOMAIN assets
        /\ ReqSubPath # SWAGGER_UI_CONFIG
        /\ ~ (spec.tag = "Spec" /\ ReqSubPath = StrippedName)) =>
          /\ resp.status = 404
          /\ resp.body = EmptyBody
    /\ spec.tag = "Url" => resp.outcome # "spec"

\* remote-URL mode, and the path an inline spec would have been served at
C7_Witness ==
    /\ spec.tag = "Url"
    /\ ReqSubPath = Str_openapi_json
    /\ resp.status = 404
    /\ resp.body = EmptyBody

-----------------------------------------------------------------------------
(* C9 *)

\* C9: in inline-spec mode the url of the returned configuration, requested
\* on the same mount, gets the spec document with the spec's content. Stated
\* for the spec names the resolver serves at all: those that, stripped, are
\* neither a bundle key nor "swagger-ui-config.json".
C9_ConfigThenFetch ==
    (/\ followed
     /\ StrippedName \notin DOMAIN assets
     /\ StrippedName # SWAGGER_UI_CONFIG) =>
        /\ resp.outcome = "spec"
        /\ resp.status = 200
        /\ resp.body = BytesBody(spec.content)

-----------------------------------------------------------------------------
(* C10 *)

\* C10: mime_type takes as extension the text after the last "." of the path,
\* and the empty text when the path has no "."; so every path without a "."
\* gets application/octet-stream.
C10_ExtensionOfPath ==
    ctype # "" =>
        /\ ctype = from_ext_first_or_octet_stream(ExtensionOf(filename))
        /\ ~ HasDot(filename) => ctype = "application/octet-stream"

-----------------------------------------------------------------------------
(* C8 *)

\* C8: whatever requests are served and however their handlers interleave,
\* the shared base Configuration (its url included), the SpecOrUrl and the
\* bundle keep their mount-time values, and a request that is repeated gets
\* the response it got before.
C8_SharedStateImmutable ==
    /\ config = mounted.config
    /\ spec = mounted.spec
    /\ assets = mounted.assets
    /\ \A w \in DOMAIN tasks :
          (/\ tasks[w].pc = "done"
           /\ first # <<>>
           /\ first[1].original = tasks[w].original) =>
              tasks[w].resp = first[1].resp
    /\ \A v, w \in DOMAIN tasks :
          (/\ tasks[v].pc = "done"
           /\ tasks[w].pc = "done"
           /\ tasks[v].original = tasks[w].original) =>
              tasks[v].resp = tasks[w].resp

\* a worker has answered the configuration request that another worker
\* answered first, with a url other than the base Configuration's, while that
\* other worker is half-way through a configuration request for another path
C8_Witness ==
    \E v, w \in DOMAIN tasks :
        /\ v # w
        /\ first # <<>>
        /\ first[1].by = v
        /\ tasks[w].pc = "done"
        /\ tasks[w].resp.outcome = "config"
        /\ tasks[w].original = first[1].original
        /\ tasks[w].resp.body.json.url # config.url
        /\ tasks[v].pc = "url_set"
        /\ tasks[v].original # tasks[w].original

====
